---- MODULE Spec2Model ----
(***************************************************************************)
(* Model of src/hsv.rs of color-rs: the Hsv<T> value type, its Color       *)
(* operations (clamp_s, clamp_c, inverse), the ToHsv conversions and the   *)
(* HSV -> RGB conversion, for the integer channel domains u8 and u16.      *)
(*                                                                         *)
(* The Channel trait (max, clamp, invert_channel, normalized_mul,          *)
(* to_channel) and Deg::wrap are not part of hsv.rs; they are modelled     *)
(* from the contract the specification gives for them.                     *)
(***************************************************************************)
EXTENDS Integers, Sequences, FiniteSets

VARIABLES
    orig,     \* the Hsv<T> value as constructed by Hsv::new (the receiver)
    x,        \* the Hsv value returned by the last Hsv-returning operation
    hist,     \* the operations applied so far, oldest first
    outcome,  \* "ok", or the panic that aborted the program
    rgb,      \* the Rgb<U> value returned by to_rgb
    args,     \* the arguments of the last clamp_s / clamp_c call
    packed    \* the packed u32 / u64 receiver of ToHsv, if any

vars == <<orig, x, hist, outcome, rgb, args, packed>>

----------------------------------------------------------------------------
(* Bounds of the model.                                                    *)

\* s and v are drawn from 0, max, and this many values next to each of them
Edge == 1
\* hues are drawn from within this distance of every sector boundary 60*k
HueNear == 1
\* the longest chain of operations applied to one value
MaxOps == 2
\* packed integers are drawn from 0 .. PackedTop
PackedTop == 49

----------------------------------------------------------------------------
(* Channel domains.                                                        *)

Domains == {"u8", "u16"}

\* the number of bits of the integer type T
Bits(T) == IF T = "u8" THEN 8 ELSE 16

\* Channel::max(): the type's maximum for an integer domain
MaxT(T) == 2^Bits(T) - 1

\* num::traits::cast(n): Some(n) exactly when n is representable in T
CastOk(n, T) == n >= 0 /\ n <= MaxT(T)

\* floor(a * b / m) for a, b <= 65535, evaluated in 32-bit-safe pieces
MulDiv(a, b, m) ==
    LET bh == b \div 256
        bl == b % 256
        hi == a * bh
        lo == a * bl
    IN  (hi \div m) * 256 + ((hi % m) * 256 + lo) \div m

\* Channel::normalized_mul: self * rhs / max(), widened before the division
NormalizedMul(T, a, b) == MulDiv(a, b, MaxT(T))

\* Channel::invert_channel: the complement relative to max()
InvertChannel(T, a) == MaxT(T) - a

\* Channel::clamp(lo, hi)
Clamp(a, lo, hi) == IF a < lo THEN lo ELSE IF a > hi THEN hi ELSE a

\* Channel::from / to_channel: rescale by the ratio of the maxima, rounding
\* to the nearest representable value of U
ToChannel(T, U, a) ==
    IF T = U THEN a
    ELSE (2 * a * MaxT(U) + MaxT(T)) \div (2 * MaxT(T))

\* Deg::wrap: the angle brought into [0, 360)
Wrap(T, h) == h % 360

----------------------------------------------------------------------------
(* Values.                                                                 *)

Hsv(T, h, s, v) == [dom |-> T, h |-> h, s |-> s, v |-> v]
NoHsv == [dom |-> "none", h |-> 0, s |-> 0, v |-> 0]

Rgb(U, r, g, b) == [dom |-> U, r |-> r, g |-> g, b |-> b]
NoRgb == [dom |-> "none", r |-> 0, g |-> 0, b |-> 0]

NoPacked == [ty |-> "none", n |-> 0]

\* a to_rgb result: the Rgb value, or the panic that replaced it
Returned(c) == [res |-> "ok", val |-> c]
Panicked(msg) == [res |-> msg, val |-> NoRgb]

----------------------------------------------------------------------------
(* Hsv::to_rgb.                                                            *)

\* The hues h in [0, 360) at which the f64 expression
\* (h / 360.0 * 6.0).fract() * max_f evaluates just below the integer
\* (h mod 60) * max / 60, so that the truncating cast to T yields one less.
\* (IEEE-754 binary64, round to nearest even; the same hues for max = 255
\* and max = 65535.)
F64Below ==
    {52, 64, 68, 76, 80, 84, 88, 92, 104, 108, 124, 128, 132, 136, 152, 160,
     168, 176, 184, 196, 204, 208, 212, 216, 228, 244, 248, 252, 256, 260,
     264, 272, 304, 308, 316, 320, 332, 336, 340, 348, 352}

\* hue_six_cat with the division by 360 left out of hue / 360 * 6
HueSixCatNoTurn(hue) == hue * 6

\* hue_six_cat: hue / 360 * 6 truncated to usize
HueSixCat(hue) == hue \div 60

\* hue_six.fract() * max_f, truncated by the cast to T
HueSixRem(T, hue) ==
    ((hue % 60) * MaxT(T)) \div 60 - (IF hue \in F64Below THEN 1 ELSE 0)

\* the sector table with the rows of sectors 2 and 4 exchanged
SectorRowExchanged(U, cat, b, pv, qv, tv) ==
    CASE cat \in {0, 6} -> Returned(Rgb(U, b, tv, pv))
      [] cat = 1        -> Returned(Rgb(U, qv, b, pv))
      [] cat = 2        -> Returned(Rgb(U, tv, pv, b))
      [] cat = 3        -> Returned(Rgb(U, pv, qv, b))
      [] cat = 4        -> Returned(Rgb(U, pv, b, tv))
      [] cat = 5        -> Returned(Rgb(U, b, pv, qv))
      [] OTHER          -> Panicked("Unreachable code")

\* the sector table with the descending and ascending edges (qv, tv) confused
SectorRowEdgesConfused(U, cat, b, pv, qv, tv) ==
    CASE cat \in {0, 6} -> Returned(Rgb(U, b, qv, pv))
      [] cat = 1        -> Returned(Rgb(U, tv, b, pv))
      [] cat = 2        -> Returned(Rgb(U, pv, b, qv))
      [] cat = 3        -> Returned(Rgb(U, pv, tv, b))
      [] cat = 4        -> Returned(Rgb(U, qv, pv, b))
      [] cat = 5        -> Returned(Rgb(U, b, pv, tv))
      [] OTHER          -> Panicked("Unreachable code")

\* the sector table of the match on hue_six_cat
SectorRow(U, cat, b, pv, qv, tv) ==
    CASE cat \in {0, 6} -> Returned(Rgb(U, b, tv, pv))
      [] cat = 1        -> Returned(Rgb(U, qv, b, pv))
      [] cat = 2        -> Returned(Rgb(U, pv, b, tv))
      [] cat = 3        -> Returned(Rgb(U, pv, qv, b))
      [] cat = 4        -> Returned(Rgb(U, tv, pv, b))
      [] cat = 5        -> Returned(Rgb(U, b, pv, qv))
      [] OTHER          -> Panicked("Unreachable code")

\* the general branch (s and v nonzero)
ToRgbGeneral(c, U) ==
    LET T   == c.dom
        max == MaxT(T)
        hue == Wrap(T, c.h)
        cat == HueSixCat(hue)
        rem == HueSixRem(T, hue)
        pv  == ToChannel(T, U, NormalizedMul(T, max - c.s, c.v))
        qv  == ToChannel(T, U,
                   NormalizedMul(T, max - NormalizedMul(T, c.s, rem), c.v))
        tv  == ToChannel(T, U,
                   NormalizedMul(T, max - NormalizedMul(T, c.s, max - rem), c.v))
        b   == ToChannel(T, U, c.v)
    IN  IF ~CastOk(rem, T) THEN Panicked("cast failed")
        ELSE SectorRow(U, cat, b, pv, qv, tv)

\* to_rgb with max() in place of zero() in the v = 0 branch
ToRgbMaxForZero(c, U) ==
    IF c.v = 0 THEN Returned(Rgb(U, MaxT(U), MaxT(U), MaxT(U)))
    ELSE IF c.s = 0 THEN
        LET gray == ToChannel(c.dom, U, c.v) IN Returned(Rgb(U, gray, gray, gray))
    ELSE ToRgbGeneral(c, U)

\* to_rgb with the gray taken from v by a raw numeric cast, not rescaled
ToRgbRawGray(c, U) ==
    IF c.v = 0 THEN Returned(Rgb(U, 0, 0, 0))
    ELSE IF c.s = 0 THEN
        IF CastOk(c.v, U) THEN Returned(Rgb(U, c.v, c.v, c.v))
        ELSE Panicked("cast failed")
    ELSE ToRgbGeneral(c, U)

\* <Hsv<T> as ToRgb>::to_rgb::<U>
ToRgb(c, U) ==
    IF c.v = 0 THEN Returned(Rgb(U, 0, 0, 0))
    ELSE IF c.s = 0 THEN
        LET gray == ToChannel(c.dom, U, c.v) IN Returned(Rgb(U, gray, gray, gray))
    ELSE ToRgbGeneral(c, U)

----------------------------------------------------------------------------
(* Inputs.                                                                 *)

\* the saturations and values tried in domain T
SVals(T) ==
    {0, MaxT(T)} \cup (1 .. Edge) \cup ((MaxT(T) - Edge) .. (MaxT(T) - 1))
        \cup {(3 * MaxT(T)) \div 5}

\* the hues tried in domain T: around every sector boundary, the hues where
\* the f64 remainder rounds below, around max - 180 (where h + 180 stops
\* fitting T) and at the top of T
HVals(T) ==
    {h \in (UNION {((60 * k - HueNear) .. (60 * k + HueNear)) : k \in 0 .. 6})
             \cup F64Below
             \cup ((MaxT(T) - 180 - HueNear) .. (MaxT(T) - 180 + HueNear + 1))
             \cup ((MaxT(T) - HueNear) .. MaxT(T)) :
        h >= 0 /\ h <= MaxT(T)}

HsvInputs ==
    UNION {{Hsv(T, h, s, v) : h \in HVals(T), s \in SVals(T), v \in SVals(T)} :
           T \in Domains}

\* Hsv::new(h, s, v): no normalisation; nothing has been applied yet
InitHsv ==
    /\ orig \in HsvInputs
    /\ x = orig
    /\ hist = <<>>
    /\ outcome = "ok"
    /\ rgb = NoRgb
    /\ args = <<>>
    /\ packed = NoPacked

\* an operation can be applied: the program has not panicked and has not
\* yet consumed the value into an Rgb
CanApply == outcome = "ok" /\ rgb = NoRgb /\ x # NoHsv /\ Len(hist) < MaxOps

----------------------------------------------------------------------------
(* Actions.                                                                *)

\* x.to_rgb::<U>()
ToRgbStep(U) ==
    /\ CanApply
    /\ LET r == ToRgb(x, U)
       IN  /\ rgb' = r.val
           /\ outcome' = r.res
    /\ hist' = Append(hist, "to_rgb")
    /\ args' = <<U>>
    /\ UNCHANGED <<orig, x, packed>>

NextRgb == \E U \in Domains : ToRgbStep(U)

SpecRgb == InitHsv /\ [][NextRgb]_vars

----------------------------------------------------------------------------
(* Properties of to_rgb.                                                   *)

\* the last operation applied
LastOp == IF hist = <<>> THEN "none" ELSE hist[Len(hist)]

\* to_rgb::<U>() has been called on x; OutDom is its U
DidToRgb == LastOp = "to_rgb"
OutDom == args[1]

\* to_rgb took its general branch
DidGeneral == DidToRgb /\ x.s # 0 /\ x.v # 0

\* C1. Zero-value property: whatever the hue (wrapped or not) and the
\* saturation, Hsv(h, s, 0).to_rgb() returns black (0,0,0) in the output
\* domain; no sector is computed and nothing can fail.
C1_ZeroValueIsBlack ==
    (DidToRgb /\ x.v = 0) =>
        /\ outcome = "ok"
        /\ rgb = Rgb(OutDom, 0, 0, 0)

C1_Witness ==
    DidToRgb /\ x.v = 0 /\ x.s = MaxT(x.dom) /\ x.h > 360 /\ rgb.dom = "u8"

\* C2. Gray property: Hsv(h, 0, v).to_rgb() returns (g,g,g), g being v
\* rescaled from T into U (u16 65535 -> u8 255), whatever the hue.
C2_GrayProperty ==
    (DidToRgb /\ x.s = 0) =>
        /\ outcome = "ok"
        /\ rgb.dom = OutDom
        /\ rgb.r = rgb.g /\ rgb.g = rgb.b
        /\ rgb.r = ToChannel(x.dom, OutDom, x.v)
        /\ (x.dom = "u16" /\ OutDom = "u8" /\ x.v = 65535) => rgb.r = 255
        /\ (x.dom = "u8" /\ OutDom = "u16" /\ x.v = 255) => rgb.r = 65535

C2_Witness ==
    /\ DidToRgb /\ x.s = 0 /\ x.dom = "u16" /\ OutDom = "u8"
    /\ x.v = 65535 /\ x.h = 121 /\ rgb = Rgb("u8", 255, 255, 255)

\* The reference conversion of the general case: sector = floor(wrap(h)/60),
\* frac = the fractional part of wrap(h)/60 scaled into T,
\* p = v*(max-s)/max, q = v*(max - s*frac/max)/max,
\* t = v*(max - s*(max-frac)/max)/max, b = v, each rescaled into U, and the
\* triple chosen by the canonical hexagon table.
RefRgb(c, U) ==
    LET T      == c.dom
        max    == MaxT(T)
        wh     == c.h % 360
        sector == wh \div 60
        frac   == ((wh - 60 * sector) * max) \div 60
        p      == ToChannel(T, U, MulDiv(c.v, max - c.s, max))
        q      == ToChannel(T, U, MulDiv(c.v, max - MulDiv(c.s, frac, max), max))
        t      == ToChannel(T, U,
                      MulDiv(c.v, max - MulDiv(c.s, max - frac, max), max))
        b      == ToChannel(T, U, c.v)
    IN  IF sector \in {0, 6} THEN Rgb(U, b, t, p)
        ELSE IF sector = 1 THEN Rgb(U, q, b, p)
        ELSE IF sector = 2 THEN Rgb(U, p, b, t)
        ELSE IF sector = 3 THEN Rgb(U, p, q, b)
        ELSE IF sector = 4 THEN Rgb(U, t, p, b)
        ELSE Rgb(U, b, p, q)

\* C3. General case: for s # 0 and v # 0 the result of to_rgb equals the
\* reference conversion, for every h, s, v.
C3_GeneralCaseEqualsReference ==
    DidGeneral => (outcome = "ok" /\ rgb = RefRgb(x, OutDom))

\* C4. Fully saturated primaries, u16 -> u8: for nonzero v,
\* Hsv<u16>(0, 65535, v) gives (g,0,0), hue 120 gives (0,g,0) and hue 240
\* gives (0,0,g), g being v rescaled to u8; v = 39321 gives g = 153, and
\* Hsv<u16>(0, 0, 65535) gives (255,255,255).
C4_Primaries ==
    (DidToRgb /\ x.dom = "u16" /\ OutDom = "u8") =>
        LET g == ToChannel("u16", "u8", x.v)
        IN  /\ (x.s = 65535 /\ x.v # 0 /\ x.h = 0) => rgb = Rgb("u8", g, 0, 0)
            /\ (x.s = 65535 /\ x.v # 0 /\ x.h = 120) => rgb = Rgb("u8", 0, g, 0)
            /\ (x.s = 65535 /\ x.v # 0 /\ x.h = 240) => rgb = Rgb("u8", 0, 0, g)
            /\ (x.s = 65535 /\ x.v = 39321 /\ x.h \in {0, 120, 240}) =>
                   (rgb.r + rgb.g + rgb.b = 153 /\ outcome = "ok")
            /\ (x.s = 0 /\ x.v = 65535 /\ x.h = 0) => rgb = Rgb("u8", 255, 255, 255)

C4_Witness ==
    /\ DidToRgb /\ x = Hsv("u16", 240, 65535, 39321)
    /\ rgb = Rgb("u8", 0, 0, 153)

BoundaryTriple(k, U, b, p) ==
    CASE k \in {0, 6} -> Rgb(U, b, p, p)
      [] k = 1        -> Rgb(U, b, b, p)
      [] k = 2        -> Rgb(U, p, b, p)
      [] k = 3        -> Rgb(U, p, b, b)
      [] k = 4        -> Rgb(U, p, p, b)
      [] k = 5        -> Rgb(U, b, p, b)

\* the channel that ramps through sector k-1 and reaches its end at hue 60*k
RampChannel(k) == IF k \in {1, 4} THEN "g" ELSE IF k \in {2, 5} THEN "r" ELSE "b"

Abs(n) == IF n < 0 THEN 0 - n ELSE n

\* one step of the coarser of the two domains, in units of U
CoarseStep(T, U) == IF MaxT(U) > MaxT(T) THEN MaxT(U) \div MaxT(T) ELSE 1

\* C9. Sector boundary continuity: in the general case, at the boundary hue
\* 60*k the result is (b,p,p), (b,b,p), (p,b,p), (p,b,b), (p,p,b), (b,p,b) for
\* k = 0/6, 1, 2, 3, 4, 5; the results at hue 60*k - 1 and 60*k agree on the
\* two channels that do not ramp and differ on the ramping one by at most one
\* degree of ramp (max/60) plus one rounding step; hue 360 gives what hue 0
\* gives.
C9_BoundaryContinuity ==
    (DidGeneral /\ x.h \in {60 * k : k \in 0 .. 6}) =>
        LET T    == x.dom
            U    == OutDom
            k    == x.h \div 60
            b    == ToChannel(T, U, x.v)
            p    == ToChannel(T, U, MulDiv(x.v, MaxT(T) - x.s, MaxT(T)))
            prev == ToRgb([x EXCEPT !.h = 60 * k - 1], U).val
            c    == RampChannel(k)
        IN  /\ outcome = "ok"
            /\ rgb = BoundaryTriple(k, U, b, p)
            /\ k >= 1 =>
                /\ \A d \in {"r", "g", "b"} \ {c} : prev[d] = rgb[d]
                /\ 60 * Abs(prev[c] - rgb[c]) <= MaxT(U) + 60 * CoarseStep(T, U)
            /\ k = 6 => rgb = ToRgb([x EXCEPT !.h = 0], U).val

C9_Witness ==
    /\ DidGeneral /\ x.h = 360 /\ x.s = 39321 /\ x.v = 65534 /\ OutDom = "u8"
    /\ rgb.g = rgb.b /\ rgb.r > rgb.g

----------------------------------------------------------------------------
(* Color::inverse.                                                         *)

\* an Hsv result: the value, or the panic that replaced it
ReturnedHsv(c) == [res |-> "ok", val |-> c]
PanickedHsv(msg) == [res |-> msg, val |-> NoHsv]

\* self.h + Deg(cast(180)), the sum being taken in T: where it does not fit T
\* the build decides between the overflow panic (overflow checks on) and the
\* wrapped sum (overflow checks off)
HuePlus180(T, h) ==
    IF CastOk(h + 180, T) THEN {ReturnedHsv(Hsv(T, h + 180, 0, 0))}
    ELSE {PanickedHsv("attempt to add with overflow"),
          ReturnedHsv(Hsv(T, (h + 180) % 2^Bits(T), 0, 0))}

\* <Hsv<T> as Color<T>>::inverse: the set of outcomes the builds can produce
Inverse(c) ==
    IF ~CastOk(180, c.dom) THEN {PanickedHsv("cast failed")}
    ELSE {IF r.res = "ok"
          THEN ReturnedHsv(Hsv(c.dom, Wrap(c.dom, r.val.h),
                               InvertChannel(c.dom, c.s),
                               InvertChannel(c.dom, c.v)))
          ELSE r : r \in HuePlus180(c.dom, c.h)}

\* x.inverse()
InverseStep ==
    /\ CanApply
    /\ \E r \in Inverse(x) :
        /\ x' = (IF r.res = "ok" THEN r.val ELSE x)
        /\ outcome' = r.res
    /\ hist' = Append(hist, "inverse")
    /\ args' = <<>>
    /\ UNCHANGED <<orig, rgb, packed>>

NextInverse == InverseStep

SpecInverse == InitHsv /\ [][NextInverse]_vars

\* C5. Inverse involution: for every hue representable in T (hues next to
\* the type's maximum included), one inverse() yields hue (h + 180) wrapped
\* into [0, 360), s' = max - s and v' = max - v, and inverse().inverse() has
\* the original s and v and a hue congruent to the original modulo 360.
C5_InverseInvolution ==
    /\ hist = <<"inverse">> =>
        /\ outcome = "ok"
        /\ x = Hsv(orig.dom, (orig.h + 180) % 360,
                   MaxT(orig.dom) - orig.s, MaxT(orig.dom) - orig.v)
    /\ hist = <<"inverse", "inverse">> =>
        /\ outcome = "ok"
        /\ x.s = orig.s /\ x.v = orig.v
        /\ x.h % 360 = orig.h % 360

----------------------------------------------------------------------------
(* ToHsv.                                                                  *)

\* <Hsv<T> as ToHsv>::to_hsv::<U>: the hue goes through cast(..).unwrap(),
\* s and v through to_channel
ToHsv(c, U) ==
    IF ~CastOk(c.h, U) THEN PanickedHsv("cast failed")
    ELSE ReturnedHsv(Hsv(U, c.h, ToChannel(c.dom, U, c.s),
                         ToChannel(c.dom, U, c.v)))

\* <u32 as ToHsv>::to_hsv with the packed bytes decoded as 0xHHSSVV
U32ToHsvDecoded(n, U) ==
    ReturnedHsv(Hsv(U, (n \div 65536) % 256,
                    ToChannel("u8", U, (n \div 256) % 256),
                    ToChannel("u8", U, n % 256)))

\* <u32 as ToHsv>::to_hsv::<U>
U32ToHsv(n, U) == PanickedHsv("Not yet implemented")

\* <u64 as ToHsv>::to_hsv::<U>
U64ToHsv(n, U) == PanickedHsv("Not yet implemented")

\* the name a to_hsv::<U>() call leaves in hist
ToHsvName(U) == IF U = "u8" THEN "to_hsv::<u8>" ELSE "to_hsv::<u16>"

\* a packed u32 or u64 receiver instead of an Hsv
InitPacked ==
    /\ packed \in {[ty |-> ty, n |-> n] : ty \in {"u32", "u64"}, n \in 0 .. PackedTop}
    /\ orig = NoHsv
    /\ x = NoHsv
    /\ hist = <<>>
    /\ outcome = "ok"
    /\ rgb = NoRgb
    /\ args = <<>>

InitToHsv == InitHsv \/ InitPacked

\* x.to_hsv::<U>()
ToHsvStep(U) ==
    /\ CanApply
    /\ LET r == ToHsv(x, U)
       IN  /\ x' = (IF r.res = "ok" THEN r.val ELSE x)
           /\ outcome' = r.res
    /\ hist' = Append(hist, ToHsvName(U))
    /\ args' = <<U>>
    /\ UNCHANGED <<orig, rgb, packed>>

\* the result of a call on a packed receiver
PackedStep(r, U) ==
    /\ x' = r.val
    /\ outcome' = r.res
    /\ hist' = Append(hist, ToHsvName(U))
    /\ args' = <<U>>
    /\ UNCHANGED <<orig, rgb, packed>>

\* n.to_hsv::<U>() for a u32 n
U32ToHsvStep(U) ==
    /\ packed.ty = "u32" /\ outcome = "ok" /\ hist = <<>>
    /\ PackedStep(U32ToHsv(packed.n, U), U)

\* n.to_hsv::<U>() for a u64 n
U64ToHsvStep(U) ==
    /\ packed.ty = "u64" /\ outcome = "ok" /\ hist = <<>>
    /\ PackedStep(U64ToHsv(packed.n, U), U)

NextToHsv ==
    \E U \in Domains : ToHsvStep(U) \/ U32ToHsvStep(U) \/ U64ToHsvStep(U)

SpecToHsv == InitToHsv /\ [][NextToHsv]_vars

\* C6. Round-trip domain rescale: to_hsv::<U>() never fails, whatever hue T
\* can represent, and x.to_hsv::<U>().to_hsv::<T>() has the original hue and
\* an s and v equal to the original for u8 -> u16 -> u8 and within one u8
\* step (257 in u16 units) of it for u16 -> u8 -> u16.
C6_RoundTripRescale ==
    /\ (orig # NoHsv /\ hist # <<>>) => outcome = "ok"
    /\ (orig # NoHsv /\ Len(hist) = 2 /\ hist[2] = ToHsvName(orig.dom)) =>
        /\ x.dom = orig.dom
        /\ x.h = orig.h
        /\ orig.dom = "u8" => (x.s = orig.s /\ x.v = orig.v)
        /\ orig.dom = "u16" =>
               (Abs(x.s - orig.s) <= 257 /\ Abs(x.v - orig.v) <= 257)

\* C8. A packed u32 or u64 cannot be converted: to_hsv::<U>() ends in the
\* "not implemented" failure and returns no Hsv, whatever the value and U.
C8_PackedNotImplemented ==
    (packed # NoPacked /\ hist # <<>>) =>
        (outcome = "Not yet implemented" /\ x = NoHsv)

C8_Witness ==
    /\ packed = [ty |-> "u64", n |-> PackedTop] /\ hist = <<"to_hsv::<u16>">>
    /\ outcome = "Not yet implemented"

----------------------------------------------------------------------------
(* Color::clamp_s and Color::clamp_c.                                      *)

\* clamp_s with the hue clamped like the other two components
ClampSHueToo(c, lo, hi) ==
    Hsv(c.dom, Clamp(c.h, lo, hi), Clamp(c.s, lo, hi), Clamp(c.v, lo, hi))

\* <Hsv<T> as Color<T>>::clamp_s
ClampS(c, lo, hi) == Hsv(c.dom, c.h, Clamp(c.s, lo, hi), Clamp(c.v, lo, hi))

\* <Hsv<T> as Color<T>>::clamp_c
ClampC(c, lo, hi) ==
    Hsv(c.dom, c.h, Clamp(c.s, lo.s, hi.s), Clamp(c.v, lo.v, hi.v))

\* the bounds tried for a clamp in domain T
ClampVals(T) == {0, (3 * MaxT(T)) \div 5, MaxT(T)}

\* the (lo.h, hi.h) pairs tried for clamp_c
ClampHues == {<<0, 100>>, <<200, 100>>}

\* x.clamp_s(lo, hi), on the value as constructed
ClampSStep(lo, hi) ==
    /\ outcome = "ok" /\ x # NoHsv /\ hist = <<>>
    /\ x' = ClampS(x, lo, hi)
    /\ hist' = Append(hist, "clamp_s")
    /\ args' = <<lo, hi>>
    /\ UNCHANGED <<orig, outcome, rgb, packed>>

\* x.clamp_c(lo, hi), on the value as constructed
ClampCStep(lo, hi) ==
    /\ outcome = "ok" /\ x # NoHsv /\ hist = <<>>
    /\ x' = ClampC(x, lo, hi)
    /\ hist' = Append(hist, "clamp_c")
    /\ args' = <<lo, hi>>
    /\ UNCHANGED <<orig, outcome, rgb, packed>>

NextClamp ==
    \/ \E lo, hi \in ClampVals(x.dom) : ClampSStep(lo, hi)
    \/ \E hh \in ClampHues : \E ls, hs, lv, hv \in ClampVals(x.dom) :
           /\ ls <= hs /\ lv <= hv
           /\ ClampCStep(Hsv(x.dom, hh[1], ls, lv), Hsv(x.dom, hh[2], hs, hv))

SpecClamp == InitHsv /\ [][NextClamp]_vars

\* C7. clamp_s and clamp_c never touch the hue: for lo <= hi the result has
\* the receiver's h (inside or outside [0,360), inside or outside the
\* bounds), and s and v clamped into [lo, hi] (clamp_s) or into [lo.s, hi.s]
\* and [lo.v, hi.v] (clamp_c, whatever lo.h and hi.h are).
C7_ClampKeepsHue ==
    /\ (LastOp = "clamp_s" /\ args[1] <= args[2]) =>
        /\ outcome = "ok"
        /\ x.h = orig.h /\ x.dom = orig.dom
        /\ x.s = Clamp(orig.s, args[1], args[2])
        /\ x.v = Clamp(orig.v, args[1], args[2])
        /\ x.s >= args[1] /\ x.s <= args[2] /\ x.v >= args[1] /\ x.v <= args[2]
    /\ (LastOp = "clamp_c" /\ args[1].s <= args[2].s /\ args[1].v <= args[2].v) =>
        /\ outcome = "ok"
        /\ x.h = orig.h /\ x.dom = orig.dom
        /\ x.s = Clamp(orig.s, args[1].s, args[2].s)
        /\ x.v = Clamp(orig.v, args[1].v, args[2].v)
        /\ x.s >= args[1].s /\ x.s <= args[2].s
        /\ x.v >= args[1].v /\ x.v <= args[2].v

C7_Witness ==
    /\ LastOp = "clamp_c" /\ orig.h = 361 /\ x.h = 361
    /\ args[1].h = 200 /\ args[2].h = 100
    /\ orig.s = 0 /\ x.s = 39321 /\ orig.v = 65535 /\ x.v = 39321

====
